---- MODULE Spec2Model ----
(***************************************************************************)
(* Model of demonstration/app.py: a Streamlit script that uploads a CV,    *)
(* asks the service to extract a candidate profile from it and submits the *)
(* reviewed profile.                                                        *)
(*                                                                         *)
(* The script is executed from top to bottom on every user interaction     *)
(* (a "run").  At most one button reports a click in a run.  State that    *)
(* survives a run is st.session_state and the values of the widgets that   *)
(* the run rendered.                                                        *)
(*                                                                         *)
(* Text that the script splits, strips or parses (the values of the form   *)
(* widgets) is a sequence of one-character strings.  Text that it only     *)
(* passes on or concatenates (file keys, response bodies, messages) is a   *)
(* TLA+ string.                                                             *)
(***************************************************************************)
EXTENDS Integers, Sequences, FiniteSets, TLC

VARIABLES
    uploaded_file,   \* value of the st.file_uploader widget (line 10)
    session_state,   \* st.session_state: a dict with keys cv_key, extract_data
    form,            \* values of the review widgets rendered by the last run
    visible,         \* buttons rendered by the last run
    request,         \* the HTTP request issued by the last run, if any
    response,        \* the response it received
    display,         \* st.success / st.error / st.json elements of the last run
    exc,             \* exception that aborted the last run, or "none"
    okUpload,        \* history: latest 2xx upload response body that carried a key
    okExtract        \* history: latest 2xx extract exchange (fileId sent, JSON received)

vars == <<uploaded_file, session_state, form, visible, request, response,
          display, exc, okUpload, okExtract>>

-----------------------------------------------------------------------------
(* Bounds of the model *)

\* largest number of review widgets whose value differs from its default
MaxEdits == 1

\* longest list a generated extraction response carries
MaxListLen == 2

-----------------------------------------------------------------------------
(* Python values *)

\* Python's None in a position that otherwise holds widget text
None == <<"None">>

EmptyDict == [k \in {} |-> TRUE]

\* dict.get(key, default)
Get(d, k, default) == IF k \in DOMAIN d THEN d[k] ELSE default

\* d[k] = v
Put(d, k, v) == [x \in DOMAIN d \cup {k} |-> IF x = k THEN v ELSE d[x]]

\* list.index(v): 1-based position of the first v, 0 when Python raises ValueError
IndexOf(list, v) ==
    IF \E i \in 1..Len(list) : list[i] = v
    THEN CHOOSE i \in 1..Len(list) :
            list[i] = v /\ \A j \in 1..(i - 1) : list[j] # v
    ELSE 0

-----------------------------------------------------------------------------
(* str methods used by the script *)

Whitespace == {" ", "\t", "\n"}

AsciiDigits == <<"0", "1", "2", "3", "4", "5", "6", "7", "8", "9">>

\* U+00B2 SUPERSCRIPT TWO: str.isdigit() accepts it, int() does not
Sup2 == "sup2"

DigitChars == {AsciiDigits[i] : i \in 1..Len(AsciiDigits)} \cup {Sup2}

RECURSIVE LStrip(_)
LStrip(s) == IF s # <<>> /\ Head(s) \in Whitespace THEN LStrip(Tail(s)) ELSE s

RECURSIVE RStrip(_)
RStrip(s) ==
    IF s # <<>> /\ s[Len(s)] \in Whitespace
    THEN RStrip(SubSeq(s, 1, Len(s) - 1))
    ELSE s

\* (a variant that forgets the left side)
Strip_RightOnly(s) == RStrip(s)

\* s.strip()
Strip(s) == RStrip(LStrip(s))

\* s.split(","): always at least one token
RECURSIVE Split(_)
Split(s) ==
    IF \E i \in 1..Len(s) : s[i] = ","
    THEN LET i == CHOOSE k \in 1..Len(s) :
                     s[k] = "," /\ \A j \in 1..(k - 1) : s[j] # ","
         IN  <<SubSeq(s, 1, i - 1)>> \o Split(SubSeq(s, i + 1, Len(s)))
    ELSE <<s>>

\* ", ".join(list)
RECURSIVE Join(_)
Join(list) ==
    IF list = <<>> THEN <<>>
    ELSE IF Len(list) = 1 THEN list[1]
    ELSE list[1] \o <<",", " ">> \o Join(Tail(list))

\* s.isdigit()
IsDigit(s) == s # <<>> /\ \A i \in 1..Len(s) : s[i] \in DigitChars

DigitValue(c) == IndexOf(AsciiDigits, c) - 1

RECURSIVE Decimal(_)
Decimal(s) ==
    IF s = <<>> THEN 0
    ELSE 10 * Decimal(SubSeq(s, 1, Len(s) - 1)) + DigitValue(s[Len(s)])

IsAsciiDecimal(s) ==
    s # <<>> /\ \A i \in 1..Len(s) : IndexOf(AsciiDigits, s[i]) # 0

\* int(s) succeeds: surrounding whitespace ignored, one optional sign, decimal digits
IntParses(s) ==
    LET t == Strip(s)
    IN  IF t # <<>> /\ Head(t) \in {"-", "+"}
        THEN IsAsciiDecimal(Tail(t))
        ELSE IsAsciiDecimal(t)

\* int(s), where IntParses(s)
Int_(s) ==
    LET t == Strip(s)
    IN  IF Head(t) = "-" THEN 0 - Decimal(Tail(t))
        ELSE IF Head(t) = "+" THEN Decimal(Tail(t))
        ELSE Decimal(t)

\* str(n) for an integer n
RECURSIVE NatStr(_)
NatStr(n) ==
    IF n < 10 THEN <<AsciiDigits[n + 1]>>
    ELSE NatStr(n \div 10) \o <<AsciiDigits[(n % 10) + 1]>>

Str(n) == IF n < 0 THEN <<"-">> \o NatStr(0 - n) ELSE NatStr(n)

\* map(str, list)
MapStr(list) == [i \in 1..Len(list) |-> Str(list[i])]

-----------------------------------------------------------------------------
(* Step 3: the review form (lines 45-75) *)

car == <<"c", "a", "r">>
public_transport == <<"p", "u", "b", "l", "i", "c", " ", "t", "r", "a", "n", "s", "p", "o", "r", "t">>
bicycle == <<"b", "i", "c", "y", "c", "l", "e">>
on_walk == <<"o", "n", " ", "w", "a", "l", "k">>
year == <<"y", "e", "a", "r">>
month == <<"m", "o", "n", "t", "h">>

\* the spellings of the data model
public_transport_hyphen == <<"p", "u", "b", "l", "i", "c", "-", "t", "r", "a", "n", "s", "p", "o", "r", "t">>
on_foot == <<"o", "n", "-", "f", "o", "o", "t">>

\* (a variant that offers the data model's spellings)
travel_mode_options_Declared == <<car, public_transport_hyphen, bicycle, on_foot>>

salary_period_options == <<year, month>>
travel_mode_options == <<car, public_transport, bicycle, on_walk>>
hours_a_week_options == <<8, 16, 24, 32, 40>>

\* the widgets in the order the script creates them
FieldOrder ==
    <<"candidateName", "employmentStatus", "currentEmployer", "currentPosition",
      "age", "location", "recruiterName", "contactName", "hardSkills",
      "experienceDescription", "yearsOfExperience", "graduationStatus", "degree",
      "targetRoles", "ambitions", "travelMode", "minutesOfRoad", "onSiteDays",
      "grossSalary", "salaryPeriod", "hoursAWeek", "jobDescriptionText">>

Fields == {FieldOrder[i] : i \in 1..Len(FieldOrder)}

\* st.text_input / st.text_area pre-filled with extract_data.get(key, "")
TextFields ==
    {"candidateName", "currentEmployer", "currentPosition", "location",
     "recruiterName", "contactName", "experienceDescription", "degree",
     "ambitions", "jobDescriptionText"}

\* st.checkbox pre-set with extract_data.get(key, False)
CheckboxFields == {"employmentStatus", "graduationStatus"}

\* st.number_input(min_value=0); the profiles below carry numbers >= 0
NumberFields == {"age", "yearsOfExperience", "grossSalary"}

StrListFields == {"hardSkills", "targetRoles"}

IntListFields == {"minutesOfRoad", "onSiteDays"}

\* (a variant that reads the name under the payload's key)
ExtractKey_Same(f) == f

\* the key of extract_data a widget is pre-filled from
ExtractKey(f) == IF f = "candidateName" THEN "name" ELSE f

\* value= of the st.number_input when the key is absent
NumberDefault(f) == IF f = "age" THEN 18 ELSE 0

\* index= of the travelMode selectbox over [""] + travel_mode_options
\* (0-based as in Python: travel_mode_options.index(..) + 1 is the 1-based
\* position IndexOf gives; -1 when list.index raises ValueError)
TravelModeIndex(d) ==
    IF Get(d, "travelMode", <<>>) = <<>> THEN 0
    ELSE IF IndexOf(travel_mode_options, d["travelMode"]) = 0 THEN 0 - 1
    ELSE IndexOf(travel_mode_options, d["travelMode"])

\* index= of the salaryPeriod selectbox
SalaryPeriodIndex(d) ==
    IF Get(d, "salaryPeriod", <<>>) # <<>>
    THEN IndexOf(salary_period_options, Get(d, "salaryPeriod", year)) - 1
    ELSE 0

\* index= of the hoursAWeek selectbox
HoursAWeekIndex(d) ==
    IF Get(d, "hoursAWeek", 0) # 0
    THEN IndexOf(hours_a_week_options, Get(d, "hoursAWeek", 40)) - 1
    ELSE 0

\* creating the widget of field f from extract_data d raises ValueError
WidgetRaises(d, f) ==
    CASE f = "travelMode" -> TravelModeIndex(d) < 0
      [] f = "salaryPeriod" -> SalaryPeriodIndex(d) < 0
      [] f = "hoursAWeek" -> HoursAWeekIndex(d) < 0
      [] OTHER -> FALSE

\* the value a freshly created widget of field f holds
Default(d, f) ==
    CASE f \in TextFields -> Get(d, ExtractKey(f), <<>>)
      [] f \in CheckboxFields -> Get(d, ExtractKey(f), FALSE)
      [] f \in NumberFields -> Get(d, ExtractKey(f), NumberDefault(f))
      [] f \in StrListFields -> Join(Get(d, ExtractKey(f), <<>>))
      [] f \in IntListFields -> Join(MapStr(Get(d, ExtractKey(f), <<>>)))
      [] f = "travelMode" -> (<<(<<>>)>> \o travel_mode_options)[TravelModeIndex(d) + 1]
      [] f = "salaryPeriod" -> salary_period_options[SalaryPeriodIndex(d) + 1]
      [] f = "hoursAWeek" -> hours_a_week_options[HoursAWeekIndex(d) + 1]

\* the widgets a run creates before the first one that raises
Rendered(d) ==
    LET raising == {k \in 1..Len(FieldOrder) : WidgetRaises(d, FieldOrder[k])}
    IN  IF raising = {} THEN Fields
        ELSE {FieldOrder[i] : i \in {k \in 1..Len(FieldOrder) :
                                        \A j \in raising : k < j}}

\* Lines 54-75 executed with extract_data d.  A widget keeps the value the
\* user gave it as long as consecutive runs create it with the same arguments
\* (old was created from oldD); otherwise it starts from its default.
Render(d, old, oldD) ==
    IF d = oldD /\ DOMAIN old = Rendered(d) THEN old
    ELSE [f \in Rendered(d) |->
            IF f \in DOMAIN old /\ Default(oldD, f) = Default(d, f)
            THEN old[f]
            ELSE Default(d, f)]

-----------------------------------------------------------------------------
(* Step 3: submit_payload (lines 78-102) *)

\* (a variant that sends the text as it is)
OrNone_Identity(x) == x

\* x or None
OrNone(x) == IF x # <<>> THEN x ELSE None

\* travelMode if travelMode else None
TravelModeOrNone(x) == IF x # <<>> THEN x ELSE None

\* [s.strip() for s in tokens if s.strip()]
RECURSIVE StripTokens(_)
StripTokens(tokens) ==
    IF tokens = <<>> THEN <<>>
    ELSE (IF Strip(Head(tokens)) # <<>> THEN <<Strip(Head(tokens))>> ELSE <<>>)
            \o StripTokens(Tail(tokens))

StrListField(text) == StripTokens(Split(text))

\* the condition of the integer comprehension: s.strip().isdigit()
KeepsToken(s) == IsDigit(Strip(s))

\* [int(s) for s in tokens if s.strip().isdigit()], where no int(s) raises
RECURSIVE IntTokens(_)
IntTokens(tokens) ==
    IF tokens = <<>> THEN <<>>
    ELSE (IF KeepsToken(Head(tokens)) THEN <<Int_(Head(tokens))>> ELSE <<>>)
            \o IntTokens(Tail(tokens))

IntListField(text) == IntTokens(Split(text))

\* some int(s) of the comprehension raises ValueError
IntListRaises(text) ==
    \E i \in 1..Len(Split(text)) :
        KeepsToken(Split(text)[i]) /\ ~IntParses(Split(text)[i])

\* building submit_payload raises
PayloadRaises(w) ==
    IntListRaises(w["minutesOfRoad"]) \/ IntListRaises(w["onSiteDays"])

\* submit_payload built from the widget values w, where ~PayloadRaises(w)
submit_payload(w) ==
    [candidateName |-> w["candidateName"],
     employmentStatus |-> w["employmentStatus"],
     currentEmployer |-> OrNone(w["currentEmployer"]),
     currentPosition |-> OrNone(w["currentPosition"]),
     age |-> w["age"],
     location |-> w["location"],
     recruiterName |-> w["recruiterName"],
     contactName |-> w["contactName"],
     hardSkills |-> StrListField(w["hardSkills"]),
     experienceDescription |-> w["experienceDescription"],
     yearsOfExperience |-> w["yearsOfExperience"],
     graduationStatus |-> w["graduationStatus"],
     degree |-> OrNone(w["degree"]),
     targetRoles |-> StrListField(w["targetRoles"]),
     ambitions |-> OrNone(w["ambitions"]),
     travelMode |-> TravelModeOrNone(w["travelMode"]),
     minutesOfRoad |-> IntListField(w["minutesOfRoad"]),
     onSiteDays |-> IntListField(w["onSiteDays"]),
     grossSalary |-> w["grossSalary"],
     salaryPeriod |-> w["salaryPeriod"],
     hoursAWeek |-> w["hoursAWeek"],
     jobDescriptionText |-> OrNone(w["jobDescriptionText"])]

-----------------------------------------------------------------------------
(* HTTP *)

API_BASE == "http://localhost:3000/api/v1"

NoRequest == [kind |-> "none"]

NoResponse == [status |-> "none"]

\* requests.Response.ok: the status code is below 400
ResponseOk(r) == r.status < 400

-----------------------------------------------------------------------------
(* The script.  A run is threaded through a record c:                      *)
(*   ss       st.session_state                                             *)
(*   form     widget values of the review form created so far              *)
(*   visible  buttons created so far                                       *)
(*   request, response   the HTTP exchange of the run                      *)
(*   display  elements shown so far                                        *)
(*   exc      the exception that ended the run, "none" while it goes on    *)

NoFile == "None"

StartRun(ss) ==
    [ss |-> ss, form |-> EmptyDict, visible |-> {}, request |-> NoRequest,
     response |-> NoResponse, display |-> <<>>, exc |-> "none"]

Show(c, kind, text) ==
    [c EXCEPT !.display = Append(@, [kind |-> kind, text |-> text])]

ShowJson(c, value) ==
    [c EXCEPT !.display = Append(@, [kind |-> "json", value |-> value])]

Raise(c, e) == [c EXCEPT !.exc = e]

\* lines 17-19: the 2xx branch of the upload
UploadSucceeded(c, r) ==
    IF ~r.parses THEN Raise(c, "JSONDecodeError")
    ELSE IF "key" \notin DOMAIN r.json THEN Raise(c, "KeyError")
    ELSE [Show(c, "success", "File uploaded! Key: " \o r.json["key"])
            EXCEPT !.ss = Put(@, "cv_key", r.json["key"])]

\* (a variant that forgets the key on failure)
UploadFailed_ClearsKey(c, r) ==
    [Show(c, "error", "Upload failed: " \o r.text) EXCEPT !.ss = Put(@, "cv_key", "")]

\* line 21: the other branch of the upload
UploadFailed(c, r) == Show(c, "error", "Upload failed: " \o r.text)

\* lines 12-21
Step1(c, file, click, r) ==
    IF file = NoFile THEN c
    ELSE LET c1 == [c EXCEPT !.visible = @ \cup {"upload"}]
         IN  IF click # "upload" THEN c1
             ELSE LET c2 == [c1 EXCEPT
                                !.request = [kind |-> "upload",
                                             url |-> API_BASE \o "/cvs/save",
                                             body |-> [file |-> file]],
                                !.response = r]
                  IN  IF ResponseOk(r) THEN UploadSucceeded(c2, r)
                      ELSE UploadFailed(c2, r)

\* (a variant without the gate)
ExtractEnabled_Always(cv_key) == TRUE

\* line 28: if cv_key
ExtractEnabled(cv_key) == cv_key # ""

\* lines 34-37: the 2xx branch of the extraction
ExtractSucceeded(c, r) ==
    IF ~r.parses THEN Raise(c, "JSONDecodeError")
    ELSE ShowJson(Show([c EXCEPT !.ss = Put(@, "extract_data", r.json)],
                       "success", "Data extracted!"),
                  r.json)

\* (a variant that drops the body)
ExtractFailed_NoBody(c, r) == Show(c, "error", "Extraction failed")

\* line 39
ExtractFailed(c, r) == Show(c, "error", "Extraction failed: " \o r.text)

\* lines 25-39
Step2(c, click, r) ==
    LET cv_key == Get(c.ss, "cv_key", "")
    IN  IF c.exc # "none" \/ ~ExtractEnabled(cv_key) THEN c
        ELSE LET c1 == [c EXCEPT !.visible = @ \cup {"extract"}]
             IN  IF click # "extract" THEN c1
                 ELSE LET c2 == [c1 EXCEPT
                                    !.request = [kind |-> "extract",
                                                 url |-> API_BASE \o "/cvs/extract",
                                                 body |-> [fileId |-> cv_key]],
                                    !.response = r]
                      IN  IF ResponseOk(r) THEN ExtractSucceeded(c2, r)
                          ELSE ExtractFailed(c2, r)

\* line 45: if extract_data (None and the empty dict are both false)
SubmitEnabled(extract_data) == extract_data # EmptyDict

\* lines 105-106
SubmitSucceeded(c, r) ==
    IF ~r.parses
    THEN Raise(Show(c, "success", "CV submitted successfully!"), "JSONDecodeError")
    ELSE ShowJson(Show(c, "success", "CV submitted successfully!"), r.json)

\* line 108
SubmitFailed(c, r) == Show(c, "error", "Submission failed: " \o r.text)

\* lines 43-108; old and oldD are the widget values of the previous run and
\* the extract_data they were created from
Step3(c, click, r, old, oldD) ==
    LET extract_data == Get(c.ss, "extract_data", EmptyDict)
    IN  IF c.exc # "none" \/ ~SubmitEnabled(extract_data) THEN c
        ELSE LET c1 == [c EXCEPT !.form = Render(extract_data, old, oldD)]
             IN  IF DOMAIN c1.form # Fields THEN Raise(c1, "ValueError")
                 ELSE LET c2 == [c1 EXCEPT !.visible = @ \cup {"submit"}]
                      IN  IF click # "submit" THEN c2
                          ELSE IF PayloadRaises(c2.form) THEN Raise(c2, "ValueError")
                          ELSE LET c3 == [c2 EXCEPT
                                    !.request = [kind |-> "submit",
                                                 url |-> API_BASE \o "/emails/generate",
                                                 body |-> submit_payload(c2.form)],
                                    !.response = r]
                               IN  IF ResponseOk(r) THEN SubmitSucceeded(c3, r)
                                   ELSE SubmitFailed(c3, r)

\* one execution of app.py
Script(ss, file, click, r, old, oldD) ==
    Step3(Step2(Step1(StartRun(ss), file, click, r), click, r), click, r, old, oldD)

-----------------------------------------------------------------------------
(* What the user and the service may do *)

Ada == <<"A", "d", "a">>
Cpp == <<"C", "+", "+">>
Bob == <<"B", "o", "b">>
Eve == <<"E", "v", "e">>
Acme == <<"A", "c", "m", "e">>
Dev == <<"d", "e", "v">>
Oslo == <<"O", "s", "l", "o">>

Files == {"cv.pdf"}

\* keys the upload endpoint may answer with
Keys == {"", "f1", "f2"}

ProfileAda == [name |-> Ada, hardSkills |-> <<Cpp>>, travelMode |-> car]

ProfileFull ==
    [name |-> Bob, employmentStatus |-> TRUE, currentEmployer |-> Acme,
     currentPosition |-> Dev, age |-> 41, location |-> Oslo,
     recruiterName |-> Eve, contactName |-> Ada, hardSkills |-> <<<<"a">>, <<"b">>>>,
     experienceDescription |-> Dev, yearsOfExperience |-> 7,
     graduationStatus |-> TRUE, degree |-> Dev, targetRoles |-> <<Dev>>,
     ambitions |-> Dev, travelMode |-> public_transport,
     minutesOfRoad |-> <<10, 20>>, onSiteDays |-> <<1>>, grossSalary |-> 5000,
     salaryPeriod |-> month, hoursAWeek |-> 32, jobDescriptionText |-> Dev]

\* list entries that the comma-separated edit text cannot carry
ProfileDirty ==
    [name |-> Eve, currentEmployer |-> <<>>, hardSkills |-> <<<<"a", ",", "b">>>>,
     targetRoles |-> <<<<" ", "a">>, <<>>>>, minutesOfRoad |-> <<0 - 5, 10>>]

\* travelMode spelled as in the data model, not as in travel_mode_options
ProfileHyphen == [name |-> Ada, travelMode |-> public_transport_hyphen]

\* values that Python takes for false
ProfileFalsy ==
    [name |-> <<>>, age |-> 0, degree |-> <<>>, travelMode |-> <<>>,
     salaryPeriod |-> <<>>, hoursAWeek |-> 0]

Profiles ==
    {ProfileAda, ProfileFull, ProfileDirty, ProfileHyphen, ProfileFalsy, EmptyDict}

JsonResponse(status, json) ==
    [status |-> status, parses |-> TRUE, json |-> json, text |-> "json"]

\* a success status with a body that is not JSON
NotJson == [status |-> 200, parses |-> FALSE, json |-> EmptyDict, text |-> "OK"]

\* the service's error responses (requests follows redirects, so the final
\* status of an exchange is 2xx or an error status)
Failures ==
    {[status |-> 500, parses |-> FALSE, json |-> EmptyDict, text |-> "server error"],
     [status |-> 404, parses |-> FALSE, json |-> EmptyDict, text |-> ""]}

UploadResponses ==
    {JsonResponse(200, [key |-> k]) : k \in Keys}
        \cup {JsonResponse(201, EmptyDict), NotJson} \cup Failures

ExtractResponses ==
    {JsonResponse(200, p) : p \in Profiles} \cup {NotJson} \cup Failures

SubmitResponses ==
    {JsonResponse(200, [email |-> "Dear Ada"]), NotJson} \cup Failures

\* all sequences over S of length at most n
SeqsUpTo(S, n) == UNION {[1..k -> S] : k \in 0..n}

\* list entries of generated extraction responses
StrElems == {<<"a">>, <<"b">>, <<" ", "a">>, <<"a", ",", "b">>, <<>>}

IntElems == {0 - 5, 0, 10}

Options(list) == {list[i] : i \in 1..Len(list)}

\* generated extraction responses: every short list in the list fields,
\* every combination of options in the enum fields
GenProfiles ==
    {[hardSkills |-> l, targetRoles |-> l] : l \in SeqsUpTo(StrElems, MaxListLen)}
        \cup {[minutesOfRoad |-> l, onSiteDays |-> l] :
                    l \in SeqsUpTo(IntElems, MaxListLen)}
        \cup {[travelMode |-> t, salaryPeriod |-> p, hoursAWeek |-> h] :
                    t \in Options(travel_mode_options),
                    p \in Options(salary_period_options),
                    h \in Options(hours_a_week_options)}

\* values the user may give a widget
EditValues(f) ==
    CASE f \in TextFields -> {<<>>, Eve}
      [] f \in CheckboxFields -> {TRUE, FALSE}
      [] f \in NumberFields -> {0, 30}
      [] f \in StrListFields -> {<<>>, <<"a", ",", " ", ",", "b", " ">>}
      [] f \in IntListFields ->
            {<<"1", "0", ",", " ", "x", ",", " ", "2", "0">>,
             <<"-", "5", ",", " ", "1", "0">>,
             <<"7", ",", Sup2>>}
      [] f = "travelMode" -> {<<>>} \cup Options(travel_mode_options)
      [] f = "salaryPeriod" -> Options(salary_period_options)
      [] f = "hoursAWeek" -> Options(hours_a_week_options)

\* the edits followed through whole sessions
SessionEdits(f) ==
    CASE f = "age" -> {30}
      [] f = "candidateName" -> {Eve}
      [] f = "currentEmployer" -> {<<>>, Eve}
      [] f = "hardSkills" -> {<<"a", ",", " ", ",", "b", " ">>}
      [] f = "minutesOfRoad" -> {<<"1", "0", ",", " ", "x", ",", " ", "2", "0">>,
                                 <<"7", ",", Sup2>>}
      [] f = "travelMode" -> {<<>>, on_walk}
      [] f = "hoursAWeek" -> {24}
      [] f = "graduationStatus" -> {TRUE, FALSE}
      [] OTHER -> {}

-----------------------------------------------------------------------------
(* Actions: one run of the script per user interaction *)

Is2xx(r) == r.status \in 200..299

\* the state a run leaves behind; old is the widget state the run starts from
Run(file, click, r, old) ==
    \E c \in {Script(session_state, file, click, r, old,
                     Get(session_state, "extract_data", EmptyDict))} :
        /\ uploaded_file' = file
        /\ session_state' = c.ss
        /\ form' = c.form
        /\ visible' = c.visible
        /\ request' = c.request
        /\ response' = c.response
        /\ display' = c.display
        /\ exc' = c.exc
        /\ okUpload' =
              IF c.request.kind = "upload" /\ Is2xx(r) /\ r.parses
                    /\ "key" \in DOMAIN r.json
              THEN r.json ELSE okUpload
        /\ okExtract' =
              IF c.request.kind = "extract" /\ Is2xx(r) /\ r.parses
              THEN [fileId |-> c.request.body.fileId, json |-> r.json]
              ELSE okExtract

\* the user picks a file in the uploader (line 10)
SelectFile(file) ==
    /\ uploaded_file = NoFile
    /\ Run(file, "none", NoResponse, form)

\* the user removes the file from the uploader
RemoveFile ==
    /\ uploaded_file # NoFile
    /\ Run(NoFile, "none", NoResponse, form)

\* "Upload and Save CV" (line 13)
ClickUpload(r) ==
    /\ "upload" \in visible
    /\ Run(uploaded_file, "upload", r, form)

\* "Extract Data from CV" (line 30)
ClickExtract(r) ==
    /\ "extract" \in visible
    /\ Run(uploaded_file, "extract", r, form)

\* "Submit Extracted Data" (line 77)
ClickSubmit(r) ==
    /\ "submit" \in visible
    /\ Run(uploaded_file, "submit", r, form)

\* widgets whose value is not the one they were created with
Edited(w, d) == {f \in DOMAIN w : w[f] # Default(d, f)}

\* the widgets edited once widget f holds v, e being those edited before
EditedAfter(f, v, e) ==
    IF f \in DOMAIN form /\ v = Default(session_state["extract_data"], f)
    THEN e \ {f} ELSE e \cup {f}

\* the user changes the value of a review widget (lines 54-75)
Edit(f, v) ==
    /\ f \in DOMAIN form
    /\ v # form[f]
    /\ Run(uploaded_file, "none", NoResponse, [form EXCEPT ![f] = v])

\* the state a run of the script leaves behind
After(c, file) ==
    /\ uploaded_file = file
    /\ session_state = c.ss
    /\ form = c.form
    /\ visible = c.visible
    /\ request = c.request
    /\ response = c.response
    /\ display = c.display
    /\ exc = c.exc

\* the first run of a new session
Init ==
    /\ \E c \in {Script(EmptyDict, NoFile, "none", NoResponse, EmptyDict, EmptyDict)} :
            After(c, NoFile)
    /\ okUpload = EmptyDict
    /\ okExtract = EmptyDict

\* whole sessions, with at most MaxEdits widgets edited at a time
Next ==
    \/ \E file \in Files : SelectFile(file)
    \/ RemoveFile
    \/ \E r \in UploadResponses : ClickUpload(r)
    \/ \E r \in ExtractResponses : ClickExtract(r)
    \/ \E r \in SubmitResponses : ClickSubmit(r)
    \/ \E e \in {Edited(form, Get(session_state, "extract_data", EmptyDict))} :
            \E f \in Fields : \E v \in SessionEdits(f) :
                /\ Cardinality(EditedAfter(f, v, e)) <= MaxEdits
                /\ Edit(f, v)

Spec == Init /\ [][Next]_vars

-----------------------------------------------------------------------------
(* The review form in depth: sessions that upload one file, stored under   *)
(* key "f1", and extract once, the service answering with any of the       *)
(* hand-written or generated profiles; the user then edits one widget at a *)
(* time, with any of its values (each entry of submit_payload reads only   *)
(* its own widget), and submits.                                           *)

NextForm ==
    \/ \E file \in Files : SelectFile(file)
    \/ /\ okUpload = EmptyDict
       /\ ClickUpload(JsonResponse(200, [key |-> "f1"]))
    \/ /\ okExtract = EmptyDict
       /\ \E p \in Profiles \cup GenProfiles : ClickExtract(JsonResponse(200, p))
    \/ \E r \in SubmitResponses : ClickSubmit(r)
    \/ \E e \in {Edited(form, Get(session_state, "extract_data", EmptyDict))} :
            \E f \in Fields : \E v \in EditValues(f) :
                /\ EditedAfter(f, v, e) \subseteq {f}
                /\ Edit(f, v)

SpecForm == Init /\ [][NextForm]_vars

-----------------------------------------------------------------------------
(* Properties *)

extract_data == Get(session_state, "extract_data", EmptyDict)

Failed == request.kind # "none" /\ ~Is2xx(response)

C3_UploadEnablesExtract ==
    (request.kind = "upload" /\ Is2xx(response) /\ response.parses
            /\ "key" \in DOMAIN response.json)
        => /\ "cv_key" \in DOMAIN session_state
           /\ session_state["cv_key"] = response.json["key"]
           /\ "extract" \in visible

C10_FieldsBelongToKey ==
    "submit" \in visible =>
        /\ okExtract # EmptyDict
        /\ okExtract.json = extract_data
        /\ "cv_key" \in DOMAIN session_state
        /\ okExtract.fileId = session_state["cv_key"]

\* optional fields of the payload
OptionalTextFields ==
    {"currentEmployer", "currentPosition", "degree", "ambitions", "jobDescriptionText"}

EnumFields == {"travelMode", "salaryPeriod", "hoursAWeek"}

ScalarFields == TextFields \cup CheckboxFields \cup NumberFields \cup EnumFields

\* the attribute of the data model a widget stands for
Attribute(f) == IF f = "candidateName" THEN "name" ELSE f

\* a blank optional value travels as the absent marker
Sent(f, x) ==
    IF f \in OptionalTextFields \cup {"travelMode"} /\ x = <<>> THEN None ELSE x

\* the values the widget of an enum field offers
Offered(f) ==
    CASE f = "travelMode" -> {car, public_transport, bicycle, on_walk}
      [] f = "salaryPeriod" -> {year, month}
      [] f = "hoursAWeek" -> {8, 16, 24, 32, 40}

Unedited(f) == f \in DOMAIN form /\ f \notin Edited(form, extract_data)

Scenario ==
    /\ request.kind = "submit"
    /\ okUpload = [key |-> "f1"]
    /\ extract_data = ProfileAda
    /\ Edited(form, extract_data) = {"age"}
    /\ form["age"] = 30

\* C5 (as claimed): every attribute that extraction returned and the user
\* left unedited is in the submit payload under its attribute name with the
\* extracted value.
C5_CarriedUnderAttributeName ==
    request.kind = "submit" =>
        \A f \in Fields :
            (Attribute(f) \in DOMAIN extract_data /\ Unedited(f)) =>
                /\ Attribute(f) \in DOMAIN request.body
                /\ request.body[Attribute(f)] = extract_data[Attribute(f)]

\* C5 (amended): the payload has one entry per widget, so the name travels as
\* candidateName; an unedited text, boolean or number field, or enum field
\* holding one of its widget's options, carries the extracted value and an
\* edited one the edited value, a blank optional value as the absent marker;
\* in the scenario the payload has candidateName Ada, hardSkills [C++],
\* travelMode car and age 30; a 2xx JSON response is shown unchanged.
C5_PayloadCarriesFields ==
    request.kind = "submit" =>
        /\ DOMAIN request.body = Fields
        /\ \A f \in ScalarFields :
            /\ (/\ Attribute(f) \in DOMAIN extract_data
                /\ Unedited(f)
                /\ f \in EnumFields => extract_data[f] \in Offered(f))
                    => request.body[f] = Sent(f, extract_data[Attribute(f)])
            /\ request.body[f] = Sent(f, form[f])
        /\ Scenario =>
            /\ request.body["candidateName"] = Ada
            /\ request.body["hardSkills"] = <<Cpp>>
            /\ request.body["travelMode"] = car
            /\ request.body["age"] = 30
        /\ (Is2xx(response) /\ response.parses) =>
            display[Len(display)] = [kind |-> "json", value |-> response.json]

C5_Witness ==
    /\ Scenario
    /\ response.status = 200
    /\ display[Len(display)] = [kind |-> "json", value |-> [email |-> "Dear Ada"]]

\* C6: a blank optional text field and an unselected travelMode are sent as
\* the absent marker; no payload carries an empty string for them.
C6_BlankIsAbsent ==
    request.kind = "submit" =>
        \A f \in OptionalTextFields \cup {"travelMode"} :
            /\ request.body[f] # <<>>
            /\ form[f] = <<>> => request.body[f] = None

C6_Witness ==
    /\ request.kind = "submit"
    /\ form["currentEmployer"] = <<>>
    /\ form["travelMode"] = <<>>
    /\ request.body["currentEmployer"] = None
    /\ request.body["degree"] # None

\* the tokens that parse as integers, converted, in order
RECURSIVE IntegerTokens(_)
IntegerTokens(tokens) ==
    IF tokens = <<>> THEN <<>>
    ELSE (IF IntParses(Head(tokens)) THEN <<Int_(Head(tokens))>> ELSE <<>>)
            \o IntegerTokens(Tail(tokens))

\* C7 (as claimed): the payload's integer lists are the comma-separated
\* tokens of the edit text that parse as integers after trimming, in order.
C7_IntegerTokensKept ==
    request.kind = "submit" =>
        \A f \in IntListFields : request.body[f] = IntegerTokens(Split(form[f]))

\* C8 (as claimed): an unmodified string list comes back from the edit text
\* as it was extracted.
C8_RoundTrip ==
    request.kind = "submit" =>
        \A f \in StrListFields :
            (f \in DOMAIN extract_data /\ form[f] = Join(extract_data[f]))
                => request.body[f] = extract_data[f]

\* an entry that is not empty, has no comma and no surrounding whitespace
CleanEntry(x) ==
    /\ x # <<>>
    /\ \A i \in 1..Len(x) : x[i] # ","
    /\ x[1] \notin Whitespace /\ x[Len(x)] \notin Whitespace

\* C8 (amended): the round trip holds for lists whose entries are not empty
\* and have no comma and no leading or trailing whitespace.
C8_RoundTripClean ==
    request.kind = "submit" =>
        \A f \in StrListFields :
            (/\ f \in DOMAIN extract_data
             /\ form[f] = Join(extract_data[f])
             /\ \A i \in 1..Len(extract_data[f]) : CleanEntry(extract_data[f][i]))
                => request.body[f] = extract_data[f]

C8_Witness ==
    /\ request.kind = "submit"
    /\ extract_data = [hardSkills |-> <<<<"a">>, <<"b">>>>,
                       targetRoles |-> <<<<"a">>, <<"b">>>>]
    /\ Edited(form, extract_data) = {}
    /\ request.body["hardSkills"] = <<<<"a">>, <<"b">>>>

\* the response of an extraction that the last run has just received
Extracted == request.kind = "extract" /\ Is2xx(response) /\ response.parses

\* the value sets the data model declares
Declared(f) ==
    CASE f = "travelMode" -> {car, public_transport_hyphen, bicycle, on_foot}
      [] f = "salaryPeriod" -> {year, month}
      [] f = "hoursAWeek" -> {8, 16, 24, 32, 40}

====
